---- MODULE Spec2Model ----
(***************************************************************************)
(* A model of top.py: the pipeline of main() (read the company list,      *)
(* fetch and compute one row per company, write the full CSV, rank the    *)
(* top 10, write the top-10 CSV, format, render the table and the chart). *)
(*                                                                         *)
(* Prices are bounded naturals; percent_change is kept as an exact        *)
(* rational in lowest terms (equal quotients are equal values, and the    *)
(* order of quotients is the order of the floats the code computes).      *)
(***************************************************************************)
EXTENDS Integers, Sequences, FiniteSets, TLC

VARIABLES
    pc,        \* where main() is: "load", "fetch", "to_csv", "rank", "save_top",
               \* "format", "table", "chart", "done", "aborted"
    codes,     \* read_company_list: the zero-padded codes
    names,     \* read_company_list: the names
    i,         \* fetch_stock_data: position of the next company of zip(codes, names)
    results,   \* fetch_stock_data: the list of rows
    console,   \* what print() has written
    fetched,   \* history of the run: what the provider answered for companies 1..i-1
    df_top10,  \* main: the top-10 frame (a sequence of rows)
    files,     \* the output files of the working directory
    error      \* the exception that ended main(), if any

vars == <<pc, codes, names, i, results, console, fetched, df_top10, files, error>>

----------------------------------------------------------------------------
(* Bounds of the model *)

MaxCompanies == 3

MaxBars == 4

MaxPrice == 1

(* Literals of the program *)

CodeWidth == 4

MinBars == 4

TailBars == 4

TopCount == 10

PercentScale == 100

----------------------------------------------------------------------------
(* Strings and numbers *)

DigitChar == <<"0", "1", "2", "3", "4", "5", "6", "7", "8", "9">>

RECURSIVE IntStr(_)
IntStr(n) ==
    IF n < 0 THEN "-" \o IntStr(-n)
    ELSE IF n < 10 THEN DigitChar[n + 1]
    ELSE IntStr(n \div 10) \o DigitChar[(n % 10) + 1]

RECURSIVE ZFill(_, _)
ZFill(s, w) == IF Len(s) >= w THEN s ELSE ZFill("0" \o s, w)

Abs(n) == IF n < 0 THEN -n ELSE n

RECURSIVE GCD(_, _)
GCD(a, b) == IF b = 0 THEN a ELSE GCD(b, a % b)

\* n / d for d > 0, in lowest terms
Rat(n, d) ==
    LET g == GCD(Abs(n), d)
    IN  [num |-> n \div g, den |-> d \div g]

RatLess(p, q) == p.num * q.den < q.num * p.den

\* Python's negative index: At(s, -1) is the last element
At(s, k) == s[Len(s) + 1 + k]

----------------------------------------------------------------------------
(* The input file data.csv *)

CsvCode(k) == IF k = 1 THEN 7203 ELSE k

CsvName(k) == IF k = 1 THEN "Toyota" ELSE "Company" \o IntStr(k)

CsvFiles == {[k \in 1..n |-> [code |-> CsvCode(k), name |-> CsvName(k)]] :
                n \in 0..MaxCompanies}

ReadCodes(csv) == [k \in 1..Len(csv) |-> ZFill(IntStr(csv[k].code), CodeWidth)]

ReadNames(csv) == [k \in 1..Len(csv) |-> csv[k].name]

----------------------------------------------------------------------------
(* The provider's answers *)

Prices == 0..MaxPrice

\* a day without trading: no volume, the price does not move
HaltShape == [open |-> MaxPrice, close |-> MaxPrice, volume |-> 0]

BarShapes == [open : Prices, close : Prices, volume : {1}] \cup {HaltShape}

Dated(shapes) ==
    [k \in 1..Len(shapes) |->
        [date |-> k, open |-> shapes[k].open, close |-> shapes[k].close,
         volume |-> shapes[k].volume]]

\* the provider returns n bars
HistoriesOfLength(n) == {[error |-> FALSE, bars |-> Dated(s)] : s \in [1..n -> BarShapes]}

ProviderError == [error |-> TRUE, bars |-> <<>>]

Returned(bars) == [error |-> FALSE, bars |-> bars]

\* n bars of one price pair, those at the positions Z without volume
FlatHist(n, Z, o, c) ==
    [k \in 1..n |->
        [date |-> k, open |-> o, close |-> c, volume |-> IF k \in Z THEN 0 ELSE 1]]

\* the scenario of company 7203: four bars oldest to newest, and the same with
\* one or two days without trading among them
ToyotaBars ==
    <<[open |-> 100, close |-> 105, volume |-> 1],
      [open |-> 103, close |-> 102, volume |-> 1],
      [open |-> 98, close |-> 101, volume |-> 1],
      [open |-> 95, close |-> 99, volume |-> 1]>>

ToyotaHalt == [open |-> 99, close |-> 99, volume |-> 0]

InsertAt(s, k, e) == SubSeq(s, 1, k) \o <<e>> \o SubSeq(s, k + 1, Len(s))

ToyotaHistories ==
    {Dated(ToyotaBars)}
        \cup {Dated(InsertAt(ToyotaBars, k, ToyotaHalt)) : k \in 0..4}
        \cup {Dated(InsertAt(InsertAt(ToyotaBars, k, ToyotaHalt), m, ToyotaHalt)) :
                k \in 0..4, m \in 0..5}

\* the scenario's answers, and the provider's failure
ScenarioResponses == {ProviderError} \cup {Returned(h) : h \in ToyotaHistories}

\* what each company of a whole run may get
RunResponses ==
    {ProviderError,
     Returned(<<>>),
     Returned(FlatHist(3, {}, 1, 1)),
     Returned(FlatHist(4, {2}, 1, 1)),
     Returned(FlatHist(5, {4, 5}, 1, 2)),
     Returned(FlatHist(4, {}, 0, 1)),
     Returned(FlatHist(4, {}, 1, 1)),
     Returned(FlatHist(5, {3}, 2, 2)),
     Returned(FlatHist(4, {}, 1, 2)),
     Returned(FlatHist(4, {}, 2, 3))}

----------------------------------------------------------------------------
(* An exception that nothing catches ends main() where it is *)

NoError == [type |-> "none", at |-> "none"]

Raise(type) ==
    /\ pc' = "aborted"
    /\ error' = [type |-> type, at |-> pc]

----------------------------------------------------------------------------
(* fetch_stock_data *)

Ticker(code) == code \o ".T"

\* the history as returned, no bar dropped
PositiveVolume_NoFilter(bars) == bars

\* hist[hist['Volume'] > 0]
PositiveVolume(bars) == SelectSeq(bars, LAMBDA b : b.volume > 0)

\* hist.tail(n)
LastRows(bars, n) == IF Len(bars) <= n THEN bars ELSE SubSeq(bars, Len(bars) - n + 1, Len(bars))

\* the filter and the tail of lines 30 and 31, in the other order
Window_TailFirst(bars) == PositiveVolume(LastRows(bars, TailBars))

\* the bars with volume > 0, then the last 4 of them
Window(bars) == LastRows(PositiveVolume(bars), TailBars)

\* index.strftime('%Y-%m-%d'): the days are days of one month
DateStr(d) == "2025-01-" \o ZFill(IntStr(d), 2)

DatesLabel(dc, do) == "close " \o DateStr(dc) \o " - open " \o DateStr(do)

\* close minus the open of the same day
Diff_SameDay(hist, kc, ko) == At(hist, kc).close - At(hist, kc).open

\* closes[kc] - opens[ko]
Diff(hist, kc, ko) == At(hist, kc).close - At(hist, ko).open

\* float division: a zero divisor raises ZeroDivisionError
DivisionRaises(hist) == At(hist, -1).open = 0

\* the change of the day before, over the newest open
PercentChange_Yesterday(hist) == Rat(Diff(hist, -2, -3) * PercentScale, At(hist, -1).open)

PercentChange(hist) == Rat(Diff(hist, -1, -2) * PercentScale, At(hist, -1).open)

Row(ticker, name, hist) ==
    [Stock_Code |-> ticker,
     Company_Name |-> name,
     today_open |-> At(hist, -1).open,
     yesterday_close |-> At(hist, -2).close,
     Diff1 |-> Diff(hist, -1, -2),
     Diff2 |-> Diff(hist, -2, -3),
     Diff3 |-> Diff(hist, -3, -4),
     Percent_Change |-> PercentChange(hist),
     Diff1_dates |-> DatesLabel(At(hist, -1).date, At(hist, -2).date),
     Diff2_dates |-> DatesLabel(At(hist, -2).date, At(hist, -3).date),
     Diff3_dates |-> DatesLabel(At(hist, -3).date, At(hist, -4).date)]

ErrorLine(ticker, what) == "Error fetching " \o ticker \o ": " \o what

\* results.insert(0, row)
AddRow_Prepend(rows, row) == <<row>> \o rows

\* results.append(row)
AddRow(rows, row) == Append(rows, row)

\* the try block of one company, and its except clause
TryBlock(resp) ==
    LET ticker == Ticker(codes[i])
        hist == Window(resp.bars)
    IN  IF resp.error
        THEN /\ console' = Append(console, ErrorLine(ticker, "provider"))
             /\ results' = results
        ELSE IF Len(hist) < MinBars
        THEN UNCHANGED <<results, console>>
        ELSE IF DivisionRaises(hist)
        THEN /\ console' = Append(console, ErrorLine(ticker, "float division by zero"))
             /\ results' = results
        ELSE /\ results' = AddRow(results, Row(ticker, names[i], hist))
             /\ console' = console

\* the loop without its except clause: the provider's exception ends main()
FetchCompany_Uncaught(answers) ==
    /\ pc = "fetch"
    /\ i <= Len(codes)
    /\ \E resp \in answers :
          /\ IF resp.error
             THEN /\ Raise("ProviderError")
                  /\ UNCHANGED <<results, console, i>>
             ELSE /\ TryBlock(resp)
                  /\ i' = i + 1
                  /\ UNCHANGED <<pc, error>>
          /\ fetched' = Append(fetched, resp)
    /\ UNCHANGED <<codes, names, df_top10, files>>

\* one iteration of the loop over zip(codes, names); the provider answers with
\* one of answers
FetchCompany(answers) ==
    /\ pc = "fetch"
    /\ i <= Len(codes)
    /\ \E resp \in answers :
          /\ TryBlock(resp)
          /\ fetched' = Append(fetched, resp)
    /\ i' = i + 1
    /\ UNCHANGED <<pc, codes, names, df_top10, files, error>>

\* return results
FetchReturn ==
    /\ pc = "fetch"
    /\ i > Len(codes)
    /\ pc' = "to_csv"
    /\ UNCHANGED <<codes, names, i, results, console, fetched, df_top10, files, error>>

----------------------------------------------------------------------------
(* main *)

AllCsv == "tse_all_results.csv"

Top10Csv == "tse_top10_results.csv"

TablePng == "top10_tse_table.png"

ChartPng == "top10_tse_diff.png"

OutputFiles == {AllCsv, Top10Csv, TablePng, ChartPng}

Absent == [written |-> FALSE, rows |-> <<>>]

Written(rows) == [written |-> TRUE, rows |-> rows]

Init ==
    /\ pc = "load"
    /\ codes = <<>>
    /\ names = <<>>
    /\ i = 1
    /\ results = <<>>
    /\ console = <<>>
    /\ fetched = <<>>
    /\ df_top10 = <<>>
    /\ files = [f \in OutputFiles |-> Absent]
    /\ error = NoError

\* read_company_list(csv_path) returns
Load(csv) ==
    /\ pc = "load"
    /\ codes' = ReadCodes(csv)
    /\ names' = ReadNames(csv)
    /\ pc' = "fetch"
    /\ UNCHANGED <<i, results, console, fetched, df_top10, files, error>>

\* read_company_list(csv_path) raises: no file, or a column is missing
LoadFails ==
    /\ pc = "load"
    /\ Raise("LoadError")
    /\ UNCHANGED <<codes, names, i, results, console, fetched, df_top10, files>>

\* df = pd.DataFrame(results); df.to_csv("tse_all_results.csv")
SaveAll ==
    /\ pc = "to_csv"
    /\ files' = [files EXCEPT ![AllCsv] = Written(results)]
    /\ pc' = "rank"
    /\ UNCHANGED <<codes, names, i, results, console, fetched, df_top10, error>>

SaveAllFails ==
    /\ pc = "to_csv"
    /\ Raise("OSError")
    /\ UNCHANGED <<codes, names, i, results, console, fetched, df_top10, files>>

\* the orders sort_values(column, ascending=False) may give: its default
\* kind is quicksort, which leaves the order of equal keys open
SortOrders(rows) ==
    {p \in Permutations(1..Len(rows)) :
        \A k \in 1..(Len(rows) - 1) :
            ~RatLess(rows[p[k]].Percent_Change, rows[p[k + 1]].Percent_Change)}

Reordered(rows, p) == [k \in 1..Len(rows) |-> rows[p[k]]]

\* .head(n)
Head10(rows, n) == IF Len(rows) <= n THEN rows ELSE SubSeq(rows, 1, n)

\* df.sort_values('Percent Change ...', ascending=False).head(10)
Rank ==
    /\ pc = "rank"
    /\ results # <<>>
    /\ \E p \in SortOrders(results) :
           df_top10' = Head10(Reordered(results, p), TopCount)
    /\ pc' = "save_top"
    /\ UNCHANGED <<codes, names, i, results, console, fetched, files, error>>

\* pd.DataFrame([]) has no columns: sort_values raises KeyError
RankRaises ==
    /\ pc = "rank"
    /\ results = <<>>
    /\ Raise("KeyError")
    /\ UNCHANGED <<codes, names, i, results, console, fetched, df_top10, files>>

\* df_top10.to_csv("tse_top10_results.csv")
SaveTop ==
    /\ pc = "save_top"
    /\ files' = [files EXCEPT ![Top10Csv] = Written(df_top10)]
    /\ pc' = "format"
    /\ UNCHANGED <<codes, names, i, results, console, fetched, df_top10, error>>

SaveTopFails ==
    /\ pc = "save_top"
    /\ Raise("OSError")
    /\ UNCHANGED <<codes, names, i, results, console, fetched, df_top10, files>>

\* round(100 * x) for x = p.num / p.den, halves to the even neighbour
Hundredths(p) ==
    LET n == p.num * 100
        q == n \div p.den
        r == n - q * p.den
    IN  IF 2 * r > p.den THEN q + 1
        ELSE IF 2 * r < p.den THEN q
        ELSE IF q % 2 = 0 THEN q ELSE q + 1

\* f"{x:.2f}%"
FormatPercent(p) ==
    LET h == Abs(Hundredths(p))
    IN  (IF p.num < 0 THEN "-" ELSE "") \o IntStr(h \div 100) \o "."
            \o ZFill(IntStr(h % 100), 2) \o "%"

RECURSIVE FrameText(_)
FrameText(rows) ==
    IF rows = <<>> THEN ""
    ELSE rows[1].Stock_Code \o " " \o rows[1].Percent_Change \o "\n"
            \o FrameText(SubSeq(rows, 2, Len(rows)))

\* the percent column becomes text; print(df_top10)
Format ==
    /\ pc = "format"
    /\ df_top10' = [k \in 1..Len(df_top10) |->
                       [df_top10[k] EXCEPT !.Percent_Change = FormatPercent(@)]]
    /\ console' = Append(console, FrameText(df_top10'))
    /\ pc' = "table"
    /\ UNCHANGED <<codes, names, i, results, fetched, files, error>>

\* save_table_image(df_top10, table_cols, "top10_tse_table.png")
SaveTable ==
    /\ pc = "table"
    /\ files' = [files EXCEPT ![TablePng] = Written(df_top10)]
    /\ pc' = "chart"
    /\ UNCHANGED <<codes, names, i, results, console, fetched, df_top10, error>>

SaveTableFails ==
    /\ pc = "table"
    /\ Raise("OSError")
    /\ UNCHANGED <<codes, names, i, results, console, fetched, df_top10, files>>

\* str.replace(pat, ''), pat taken literally
RECURSIVE Remove(_, _)
Remove(s, pat) ==
    IF Len(s) < Len(pat) THEN s
    ELSE IF SubSeq(s, 1, Len(pat)) = pat THEN Remove(SubSeq(s, Len(pat) + 1, Len(s)), pat)
    ELSE SubSeq(s, 1, 1) \o Remove(SubSeq(s, 2, Len(s)), pat)

\* str[:n]
Prefix(s, n) == IF Len(s) <= n THEN s ELSE SubSeq(s, 1, n)

XLabel(row) == Remove(row.Stock_Code, ".T") \o " " \o Prefix(row.Company_Name, 3)

DigitValue(c) == CHOOSE d \in 0..9 : DigitChar[d + 1] = c

RECURSIVE DigitsValue(_)
DigitsValue(s) ==
    IF s = "" THEN 0
    ELSE 10 * DigitsValue(SubSeq(s, 1, Len(s) - 1)) + DigitValue(SubSeq(s, Len(s), Len(s)))

\* float(text) of a text with two decimals
ParseFloat(s) ==
    LET neg == SubSeq(s, 1, 1) = "-"
        v == DigitsValue(Remove(Remove(s, "-"), "."))
    IN  Rat(IF neg THEN -v ELSE v, 100)

\* the percent column read back: astype(str).str.replace('%', '').astype(float)
PercentFloat(row) == ParseFloat(Remove(row.Percent_Change, "%"))

WithLabels(rows) ==
    [k \in 1..Len(rows) |->
        [Stock_Code |-> rows[k].Stock_Code,
         Company_Name |-> rows[k].Company_Name,
         today_open |-> rows[k].today_open,
         yesterday_close |-> rows[k].yesterday_close,
         Diff1 |-> rows[k].Diff1,
         Diff2 |-> rows[k].Diff2,
         Diff3 |-> rows[k].Diff3,
         Percent_Change |-> rows[k].Percent_Change,
         Diff1_dates |-> rows[k].Diff1_dates,
         Diff2_dates |-> rows[k].Diff2_dates,
         Diff3_dates |-> rows[k].Diff3_dates,
         x_label |-> XLabel(rows[k])]]

ChartData(rows) ==
    [k \in 1..Len(rows) |->
        [x_label |-> rows[k].x_label,
         Diff1 |-> rows[k].Diff1,
         Diff2 |-> rows[k].Diff2,
         Diff3 |-> rows[k].Diff3,
         percent |-> PercentFloat(rows[k])]]

\* plot_diff_and_percent(df_top10, "top10_tse_diff.png")
SaveChart ==
    /\ pc = "chart"
    /\ df_top10' = WithLabels(df_top10)
    /\ files' = [files EXCEPT ![ChartPng] = Written(ChartData(df_top10'))]
    /\ pc' = "done"
    /\ UNCHANGED <<codes, names, i, results, console, fetched, error>>

SaveChartFails ==
    /\ pc = "chart"
    /\ df_top10' = WithLabels(df_top10)
    /\ Raise("OSError")
    /\ UNCHANGED <<codes, names, i, results, console, fetched, files>>

Next ==
    \/ \E csv \in CsvFiles : Load(csv)
    \/ LoadFails
    \/ FetchCompany(RunResponses)
    \/ FetchReturn
    \/ SaveAll
    \/ SaveAllFails
    \/ Rank
    \/ RankRaises
    \/ SaveTop
    \/ SaveTopFails
    \/ Format
    \/ SaveTable
    \/ SaveTableFails
    \/ SaveChart
    \/ SaveChartFails

Spec == Init /\ [][Next]_vars

----------------------------------------------------------------------------
(* fetch_stock_data on the list of the one company 7203, with every bounded *)
(* history the provider may return                                          *)

InitCompany ==
    /\ pc = "fetch"
    /\ codes = ReadCodes(<<[code |-> CsvCode(1), name |-> CsvName(1)]>>)
    /\ names = ReadNames(<<[code |-> CsvCode(1), name |-> CsvName(1)]>>)
    /\ i = 1
    /\ results = <<>>
    /\ console = <<>>
    /\ fetched = <<>>
    /\ df_top10 = <<>>
    /\ files = [f \in OutputFiles |-> Absent]
    /\ error = NoError

NextCompany ==
    \/ \E n \in 0..MaxBars : FetchCompany(HistoriesOfLength(n))
    \/ FetchCompany(ScenarioResponses)
    \/ FetchReturn

SpecCompany == InitCompany /\ [][NextCompany]_vars

----------------------------------------------------------------------------
(* What the claims speak of, in terms of the provider's answers *)

ValidPositions(bars) == {k \in 1..Len(bars) : bars[k].volume > 0}

NumValid(resp) == Cardinality(ValidPositions(resp.bars))

\* the j-th most recent bar with volume > 0 (j = 1 is the newest)
Recent(bars, j) ==
    bars[CHOOSE k \in ValidPositions(bars) :
            Cardinality({m \in ValidPositions(bars) : m > k}) = j - 1]

Processed == 1..Len(fetched)

\* the provider returned a history with a 4-bar window
HasWindow(k) == ~fetched[k].error /\ NumValid(fetched[k]) >= 4

\* the company's processing raised nothing and left a 4-bar window
Succeeded(k) == HasWindow(k) /\ Recent(fetched[k].bars, 1).open # 0

RowsOf(k) == {j \in 1..Len(results) : results[j].Stock_Code = codes[k] \o ".T"}

----------------------------------------------------------------------------
(* Claims about one company, under SpecCompany *)

\* C1: a company with a 4-bar window whose processing raises nothing has a row
\* whose Diff1 is close[-1] - open[-2] and whose percent change is
\* Diff1 / open[-1] * 100.
C1_PercentChange ==
    \A k \in Processed :
        Succeeded(k) =>
            LET b == fetched[k].bars
                d == Recent(b, 1).close - Recent(b, 2).open
            IN  /\ RowsOf(k) # {}
                /\ \A j \in RowsOf(k) :
                      /\ results[j].Diff1 = d
                      /\ results[j].Percent_Change.den > 0
                      /\ results[j].Percent_Change.num * Recent(b, 1).open
                            = d * 100 * results[j].Percent_Change.den

C1_Witness ==
    \E k \in Processed :
        /\ Succeeded(k)
        /\ \E j \in RowsOf(k) :
              /\ results[j].Percent_Change.den > 1
              /\ results[j].Diff1 # results[j].Diff2

ToyotaFetched(k) ==
    /\ codes[k] = "7203"
    /\ names[k] = "Toyota"
    /\ ~fetched[k].error
    /\ fetched[k].bars \in ToyotaHistories

\* C7 as claimed: for 7203 (Toyota) with the bars (100,105), (103,102), (98,101),
\* (95,99) oldest to newest the row has diff1 = 2, diff2 = 4, diff3 = 6 and
\* percent_change = 2/105 * 100.
C7_AsClaimed ==
    \A k \in Processed :
        ToyotaFetched(k) =>
            \E j \in RowsOf(k) :
                /\ results[j].Diff1 = 2
                /\ results[j].Diff2 = 4
                /\ results[j].Diff3 = 6
                /\ results[j].Percent_Change.num * 105 = 200 * results[j].Percent_Change.den

\* C7 amended: for those bars, oldest to newest, the row has diff1 = 99 - 98 = 1,
\* diff2 = 101 - 103 = -2, diff3 = 102 - 100 = 2 and percent_change = 1/95 * 100
\* (1.05%), with today_open = 95 and yesterday_close = 101.
C7_ToyotaRow ==
    \A k \in Processed :
        ToyotaFetched(k) =>
            /\ RowsOf(k) # {}
            /\ \A j \in RowsOf(k) :
                  /\ results[j].Stock_Code = "7203.T"
                  /\ results[j].today_open = 95
                  /\ results[j].yesterday_close = 101
                  /\ results[j].Diff1 = 1
                  /\ results[j].Diff2 = -2
                  /\ results[j].Diff3 = 2
                  /\ results[j].Percent_Change.num * 95 = 100 * results[j].Percent_Change.den
                  /\ FormatPercent(results[j].Percent_Change) = "1.05%"

C7_Witness ==
    \E k \in Processed :
        /\ ToyotaFetched(k)
        /\ Len(fetched[k].bars) = 5
        /\ \E j \in RowsOf(k) : results[j].Diff1 = 1

\* the row is computed from exactly the four most recent bars with volume > 0
FromRecentBars(row, b) ==
    /\ row.today_open = Recent(b, 1).open
    /\ row.yesterday_close = Recent(b, 2).close
    /\ row.Diff1 = Recent(b, 1).close - Recent(b, 2).open
    /\ row.Diff2 = Recent(b, 2).close - Recent(b, 3).open
    /\ row.Diff3 = Recent(b, 3).close - Recent(b, 4).open
    /\ row.Diff1_dates = DatesLabel(Recent(b, 1).date, Recent(b, 2).date)
    /\ row.Diff2_dates = DatesLabel(Recent(b, 2).date, Recent(b, 3).date)
    /\ row.Diff3_dates = DatesLabel(Recent(b, 3).date, Recent(b, 4).date)

----------------------------------------------------------------------------
(* Claims about a whole run of main(), under Spec *)

\* C2: a company whose returned history has fewer than 4 bars with volume > 0
\* (3 left after a zero-volume day is dropped, or none at all) never has a row in
\* results, whatever the other companies return.
C2_TooFewBarsNoRow ==
    \A k \in Processed :
        (~fetched[k].error /\ NumValid(fetched[k]) < 4) => RowsOf(k) = {}

C2_Witness ==
    /\ pc = "done"
    /\ results # <<>>
    /\ \E k \in Processed :
          /\ ~fetched[k].error
          /\ Len(fetched[k].bars) = 4
          /\ NumValid(fetched[k]) = 3
    /\ \E k \in Processed : ~fetched[k].error /\ fetched[k].bars = <<>>

RECURSIVE SucceededUpTo(_)
SucceededUpTo(n) ==
    IF n = 0 THEN <<>>
    ELSE IF Succeeded(n) THEN Append(SucceededUpTo(n - 1), n)
    ELSE SucceededUpTo(n - 1)

C10_Rows ==
    LET idx == SucceededUpTo(Len(fetched))
    IN  /\ Len(results) = Len(idx)
        /\ \A j \in 1..Len(idx) :
              /\ results[j].Stock_Code = codes[idx[j]] \o ".T"
              /\ results[j].Company_Name = names[idx[j]]
        /\ pc = "fetch" => i = Len(fetched) + 1

C10_RowsKept ==
    /\ Len(results') >= Len(results)
    /\ \A j \in 1..Len(results) : results'[j] = results[j]

\* C10: after every iteration, and on return, results holds exactly one row for
\* each company processed so far whose processing raised nothing and left 4 valid
\* bars (ticker = code + ".T"), in list order, and no other row; and a row once
\* appended is never removed, moved or changed.
C10_ResultsAreTheSucceeded == [](C10_Rows) /\ [][C10_RowsKept]_vars

C10_Witness ==
    /\ pc = "to_csv"
    /\ Len(codes) = 3
    /\ Len(results) = 2
    /\ ~Succeeded(2)

\* line 133 has been passed
Ranked ==
    \/ pc \in {"save_top", "format", "table", "chart", "done"}
    \/ pc = "aborted" /\ error.at \in {"save_top", "table", "chart"}

\* line 133 has been run
RankAttempted == Ranked \/ (pc = "aborted" /\ error.at = "rank")

InTop(j) == \E k \in 1..Len(df_top10) : df_top10[k].Stock_Code = results[j].Stock_Code

TopPos(j) == CHOOSE k \in 1..Len(df_top10) : df_top10[k].Stock_Code = results[j].Stock_Code

\* the row of results that the k-th row of the top 10 was taken from
SourceRow(k) ==
    results[CHOOSE j \in 1..Len(results) : results[j].Stock_Code = df_top10[k].Stock_Code]

Min(a, b) == IF a <= b THEN a ELSE b

TopNSorted ==
    /\ Len(df_top10) = Min(TopCount, Len(results))
    /\ \A k \in 1..Len(df_top10) :
          \E j \in 1..Len(results) :
              /\ results[j].Stock_Code = df_top10[k].Stock_Code
              /\ pc = "save_top" => df_top10[k] = results[j]
    /\ \A k \in 1..(Len(df_top10) - 1) :
          ~RatLess(SourceRow(k).Percent_Change, SourceRow(k + 1).Percent_Change)

\* C4 as claimed: for every results list main can build, of any size from 0 up,
\* main derives a TopN that is sorted descending by percent_change, whose rows are
\* rows of results, and whose size is min(10, size of results).
C4_AsClaimed == RankAttempted => (Ranked /\ TopNSorted)

\* C5 as claimed: rows of equal percent_change keep their fetch order in TopN,
\* and a later one is never selected while an earlier one is left out.
C5_AsClaimed ==
    Ranked =>
        \A a, b \in 1..Len(results) :
            (a < b /\ results[a].Percent_Change = results[b].Percent_Change) =>
                /\ (InTop(a) /\ InTop(b)) => TopPos(a) < TopPos(b)
                /\ InTop(b) => InTop(a)

\* C6 as claimed: once the company list is read, no combination of fetch
\* outcomes makes main abort: it goes on to the ranking and to writing the two
\* CSV files and the two images (only an unwritable output can stop it).
C6_AsClaimed == (pc = "aborted" /\ error.at # "load") => error.type = "OSError"

\* C8 as claimed: a table image that cannot be written leaves the two CSV files
\* written and does not keep the chart image from being produced; a chart image
\* that cannot be written leaves the two CSV files and the table image.
C8_AsClaimed ==
    /\ (pc = "aborted" /\ error.at = "table") =>
          /\ files[AllCsv].written
          /\ files[Top10Csv].written
          /\ files[ChartPng].written
    /\ (pc = "aborted" /\ error.at = "chart") =>
          /\ files[AllCsv].written
          /\ files[Top10Csv].written
          /\ files[TablePng].written

====
